---- MODULE Spec2Model ----
(***************************************************************************)
(* Records-Management: the record store (class DatabaseManager of          *)
(* src/main.py) over its SQLite files.                                     *)
(*                                                                         *)
(* A store file holds the table `records` (id, name, add_date, remark),    *)
(* the unique index on name COLLATE NOCASE and the AUTOINCREMENT counter   *)
(* (sqlite_sequence).  The manager owns one connection; every mutation is  *)
(* a single statement followed by commit().                                *)
(*                                                                         *)
(* Strings are sequences of one-character strings so that str.strip() and  *)
(* the NOCASE collation are computed, not assumed.  Timestamps are drawn   *)
(* from a small ordered set (the store never parses them).                 *)
(***************************************************************************)
EXTENDS Integers, Sequences, FiniteSets, TLC

\* ------------------------------------------------------------------ bounds
\* Rows inserted over all store files together (caps the sum of the
\* sqlite_sequence counters, and so every id).
MaxInserts == 2

\* ------------------------------------------------------------------ inputs
\* Store locations: "A" is the default 'movies.db', "B" another file.
Paths == {"A", "B"}

Whitespace == {" "}

\* Names a caller may submit (untrimmed, mixed case).
NameInputs == { <<"A">>, <<"a">>, <<" ", "a", " ">>, <<"b">> }

\* remark is nullable: Null stands for Python None / SQL NULL.
Null == "NULL"

\* The (add_date, remark) pairs a caller submits.  add_date values are
\* integers whose order is the order of the timestamps.
Date1 == <<"2","0","2","4","-","0","1","-","0","1"," ","1","0",":","0","0",":","0","0">>
Date2 == <<"2","0","2","4","-","0","1","-","0","2"," ","1","0",":","0","0",":","0","0">>
Details == { <<Date1, Null>>, <<Date2, "dup">> }

\* Python None passed as add_date: the column is declared NOT NULL.
NoDate == <<Null>>

\* Ids a caller may name: those a store can have assigned.
Ids == 1..MaxInserts

\* Python None as returned by find_duplicate / fetchone.
None == <<>>

VARIABLES
    disk,      \* path -> committed content of the store file
    db_path,   \* DatabaseManager.db_path
    conn,      \* DatabaseManager.conn: [open, path]
    view,      \* what the connection sees: committed content plus its open transaction
    assigned,  \* path -> ids the store file has ever assigned (history)
    ret,       \* what the last store call handed back to its caller
    shown      \* the main window is open (FALSE once closeEvent has run)

vars == <<disk, db_path, conn, view, assigned, ret, shown>>

\* ----------------------------------------------------------- pure helpers
RECURSIVE lstrip(_)
lstrip(s) ==
    IF s = <<>> THEN s
    ELSE IF Head(s) \in Whitespace THEN lstrip(Tail(s)) ELSE s

RECURSIVE rstrip(_)
rstrip(s) ==
    IF s = <<>> THEN s
    ELSE IF s[Len(s)] \in Whitespace THEN rstrip(SubSeq(s, 1, Len(s) - 1)) ELSE s

\* str.strip()
strip(s) == rstrip(lstrip(s))

\* NOCASE folds the ASCII upper-case letters to lower case, nothing else.
Fold(c) ==
    CASE c = "A" -> "a"
      [] c = "B" -> "b"
      [] OTHER -> c

NoCase(s) == [i \in 1..Len(s) |-> Fold(s[i])]

\* a = b COLLATE NOCASE
NocaseEq(a, b) == NoCase(a) = NoCase(b)

\* The characters of timestamps in byte order, and a BINARY comparison of
\* two texts made of them (the order ORDER BY add_date uses).
CharOrder == <<" ", "-", "0", "1", "2", "3", "4", "5", "6", "7", "8", "9", ":">>

Rank(c) == CHOOSE i \in 1..Len(CharOrder) : CharOrder[i] = c

RECURSIVE text_leq(_, _)
text_leq(a, b) ==
    IF a = <<>> THEN TRUE
    ELSE IF b = <<>> THEN FALSE
    ELSE IF Head(a) = Head(b) THEN text_leq(Tail(a), Tail(b))
    ELSE Rank(Head(a)) < Rank(Head(b))

\* s LIKE pat: % stands for any run of characters, _ for any one character,
\* any other character for itself up to ASCII letter case.
RECURSIVE like(_, _)
like(s, pat) ==
    IF pat = <<>> THEN s = <<>>
    ELSE IF Head(pat) = "%" THEN
        \/ like(s, Tail(pat))
        \/ s # <<>> /\ like(Tail(s), pat)
    ELSE IF s = <<>> THEN FALSE
    ELSE IF Head(pat) = "_" THEN like(Tail(s), Tail(pat))
    ELSE Fold(Head(s)) = Fold(Head(pat)) /\ like(Tail(s), Tail(pat))

RowIds(rows) == {r.id : r \in rows}

MaxOf(S) == IF S = {} THEN 0 ELSE CHOOSE m \in S : \A x \in S : x <= m

\* A file without the schema (never opened, or just truncated).
NoTable == [schema |-> FALSE, rows |-> {}, seq |-> 0]

\* CREATE TABLE IF NOT EXISTS / CREATE UNIQUE INDEX IF NOT EXISTS
create_table(t) == [t EXCEPT !.schema = TRUE]

\* Rowid chosen by INTEGER PRIMARY KEY without AUTOINCREMENT: largest present + 1.
rowid_plain(t) == MaxOf(RowIds(t.rows)) + 1

\* INTEGER PRIMARY KEY AUTOINCREMENT: one more than the largest rowid the
\* table has ever held (sqlite_sequence), or than the largest present.
next_rowid(t) == MaxOf(RowIds(t.rows) \cup {t.seq}) + 1

\* Unique index compared byte for byte (no COLLATE NOCASE).
idx_name_exact(rows, name, self) ==
    \E r \in rows : r.id # self /\ r.name = name

\* Unique index that also counts the row being written.
idx_name_self(rows, name, self) ==
    \E r \in rows : NocaseEq(r.name, name)

\* idx_name_unique: would storing `name` in row `self` violate the unique
\* index on (name COLLATE NOCASE)?  self = 0 for a row being inserted.
idx_name_unique(rows, name, self) ==
    \E r \in rows : r.id # self /\ NocaseEq(r.name, name)

\* A row written with the name as submitted (no strip()).
row_unstripped(id, name, add_date, remark) ==
    [id |-> id, name |-> name, add_date |-> add_date, remark |-> remark]

\* The row an INSERT / UPDATE writes: (name.strip(), add_date, remark).
\* Row values whose remark is never written.
row_remark_dropped(id, name, add_date, remark) ==
    [id |-> id, name |-> strip(name), add_date |-> add_date, remark |-> Null]

row_values(id, name, add_date, remark) ==
    [id |-> id, name |-> strip(name), add_date |-> add_date, remark |-> remark]

\* SELECT ... FROM records WHERE id = ?
select_by_id(rows, record_id) == {r \in rows : r.id = record_id}

\* find_duplicate that looks the name up as submitted (no strip()).
find_duplicate_unstripped(rows, name) ==
    LET hits == {r \in rows : NocaseEq(r.name, name)}
    IN  IF hits = {} THEN {None} ELSE {<<r.add_date, r.remark>> : r \in hits}

\* find_duplicate: the possible results of
\* SELECT add_date, remark ... WHERE name = ? COLLATE NOCASE LIMIT 1
find_duplicate(rows, name) ==
    LET hits == {r \in rows : NocaseEq(r.name, strip(name))}
    IN  IF hits = {} THEN {None} ELSE {<<r.add_date, r.remark>> : r \in hits}

\* commit() that writes nothing to the file.
commit_lost(d, p, t) == d

\* conn.commit(): the connection's content becomes the content of the file.
commit(d, p, t) == [d EXCEPT ![p] = t]

\* create_new_database that does not empty the file first.
truncate_missing(d, path) == d

\* open(db_path, 'w'): the file exists and is empty afterwards.
truncate(d, path) == [d EXCEPT ![path] = NoTable]

\* The storage handles that are open: the manager's connection, if open.
OpenHandles == IF conn.open THEN {conn.path} ELSE {}

\* The connection can execute statements on `records`.
Usable == conn.open /\ view.schema

\* INSERT INTO records (name, add_date, remark) VALUES (?, ?, ?) on table t.
insert_row(t, name, add_date, remark) ==
    LET id == next_rowid(t)
        row == row_values(id, name, add_date, remark)
    IN  [t EXCEPT !.rows = @ \cup {row}, !.seq = MaxOf({@, id})]

\* Rows the store files have inserted since they were created.
Inserted(d) == d["A"].seq + d["B"].seq

\* The outcome of a call: the value returned (ok, detail, rows), the exception
\* class the engine raised inside it (exc, "" for none) and whether that
\* exception left the method (raised).
Ret(op, ok, exc, raised, detail, rows) ==
    [op |-> op, ok |-> ok, exc |-> exc, raised |-> raised,
     detail |-> detail, rows |-> rows]

\* The exception a statement meets on a connection that cannot run it:
\* ProgrammingError (closed), OperationalError / DatabaseError otherwise.
Error == "Error"
IntegrityError == "IntegrityError"

\* ------------------------------------------------------------------- Init
\* DatabaseManager(): connect to 'movies.db' and create the schema.
Init ==
    /\ db_path = "A"
    /\ conn = [open |-> TRUE, path |-> "A"]
    /\ disk = [p \in Paths |-> IF p = "A" THEN create_table(NoTable) ELSE NoTable]
    /\ view = create_table(NoTable)
    /\ assigned = [p \in Paths |-> {}]
    /\ ret = Ret("init", TRUE, "", FALSE, None, <<>>)
    /\ shown = TRUE

\* ---------------------------------------------------------------- actions
\* ORDER BY add_date ASC.
order_by_add_date_asc(rows) ==
    {s \in [1..Cardinality(rows) -> rows] :
        /\ \A i, j \in 1..Cardinality(rows) : i # j => s[i] # s[j]
        /\ \A i, j \in 1..Cardinality(rows) : i < j => text_leq(s[i].add_date, s[j].add_date)}

\* The rows of a result set ordered by add_date DESC; rows with equal
\* add_date come in an order SQL leaves open.
order_by_add_date_desc(rows) ==
    {s \in [1..Cardinality(rows) -> rows] :
        /\ \A i, j \in 1..Cardinality(rows) : i # j => s[i] # s[j]
        /\ \A i, j \in 1..Cardinality(rows) : i < j => text_leq(s[j].add_date, s[i].add_date)}

\* DatabaseManager.add_record.  `fault`: the engine raises an error other
\* than IntegrityError (sqlite3.OperationalError) while the statement runs.
add_record(name, add_date, remark, fault) ==
    /\ shown
    /\ UNCHANGED shown
    /\ IF ~Usable \/ fault THEN
           \* only sqlite3.IntegrityError is caught: the error leaves the method
           /\ ret' = Ret("add_record", FALSE, Error, TRUE, None, <<>>)
           /\ UNCHANGED <<disk, db_path, conn, view, assigned>>
       ELSE IF add_date = NoDate \/ idx_name_unique(view.rows, strip(name), 0) THEN
           \* IntegrityError (NOT NULL on add_date, or the unique index):
           \* return False, find_duplicate(name)
           /\ \E duplicate \in find_duplicate(view.rows, name) :
                 ret' = Ret("add_record", FALSE, IntegrityError, FALSE, duplicate, <<>>)
           /\ UNCHANGED <<disk, db_path, conn, view, assigned>>
       ELSE
           LET id == next_rowid(view)
               t == insert_row(view, name, add_date, remark)
           IN  /\ Inserted(disk) < MaxInserts
               /\ view' = t
               /\ disk' = commit(disk, conn.path, t)
               /\ assigned' = [assigned EXCEPT ![conn.path] = @ \cup {id}]
               /\ ret' = Ret("add_record", TRUE, "", FALSE, None, <<>>)
               /\ UNCHANGED <<db_path, conn>>

\* DatabaseManager.get_all_records: no try block, any error leaves the method.
get_all_records(fault) ==
    /\ shown
    /\ UNCHANGED shown
    /\ IF ~Usable \/ fault
       THEN ret' = Ret("get_all_records", FALSE, Error, TRUE, None, <<>>)
       ELSE \E s \in order_by_add_date_desc(view.rows) :
               ret' = Ret("get_all_records", TRUE, "", FALSE, None, s)
    /\ UNCHANGED <<disk, db_path, conn, view, assigned>>

\* get_record_by_id that indexes the fetched row: a missing id is an error.
get_record_by_id_strict(record_id, fault) ==
    /\ shown
    /\ UNCHANGED shown
    /\ IF ~Usable \/ fault \/ select_by_id(view.rows, record_id) = {}
       THEN ret' = Ret("get_record_by_id", FALSE, Error, TRUE, None, <<>>)
       ELSE \E r \in select_by_id(view.rows, record_id) :
               ret' = Ret("get_record_by_id", TRUE, "", FALSE, None, <<r>>)
    /\ UNCHANGED <<disk, db_path, conn, view, assigned>>

\* DatabaseManager.get_record_by_id: fetchone() gives the row or None.
get_record_by_id(record_id, fault) ==
    /\ shown
    /\ UNCHANGED shown
    /\ IF ~Usable \/ fault
       THEN ret' = Ret("get_record_by_id", FALSE, Error, TRUE, None, <<>>)
       ELSE LET hit == select_by_id(view.rows, record_id)
            IN  IF hit = {}
                THEN ret' = Ret("get_record_by_id", TRUE, "", FALSE, None, <<>>)
                ELSE \E r \in hit : ret' = Ret("get_record_by_id", TRUE, "", FALSE, None, <<r>>)
    /\ UNCHANGED <<disk, db_path, conn, view, assigned>>

\* DatabaseManager.update_record: every exception is caught and gives False.
\* update_record that returns False when the statement matched no row.
update_record_rowcount(record_id, name, add_date, remark, fault) ==
    /\ shown
    /\ UNCHANGED shown
    /\ IF ~Usable \/ fault THEN
           /\ ret' = Ret("update_record", FALSE, Error, FALSE, None, <<>>)
           /\ UNCHANGED <<disk, db_path, conn, view, assigned>>
       ELSE IF \/ record_id \notin RowIds(view.rows)
               \/ idx_name_unique(view.rows, strip(name), record_id) THEN
           /\ ret' = Ret("update_record", FALSE, IntegrityError, FALSE, None, <<>>)
           /\ UNCHANGED <<disk, db_path, conn, view, assigned>>
       ELSE
           LET t == [view EXCEPT !.rows =
                       {IF r.id = record_id
                        THEN row_values(r.id, name, add_date, remark)
                        ELSE r : r \in @}]
           IN  /\ view' = t
               /\ disk' = commit(disk, conn.path, t)
               /\ ret' = Ret("update_record", TRUE, "", FALSE, None, <<>>)
               /\ UNCHANGED <<db_path, conn, assigned>>

update_record(record_id, name, add_date, remark, fault) ==
    /\ shown
    /\ UNCHANGED shown
    /\ IF ~Usable \/ fault THEN
           /\ ret' = Ret("update_record", FALSE, Error, FALSE, None, <<>>)
           /\ UNCHANGED <<disk, db_path, conn, view, assigned>>
       ELSE IF /\ record_id \in RowIds(view.rows)
               /\ idx_name_unique(view.rows, strip(name), record_id) THEN
           \* IntegrityError: the statement is undone as a whole
           /\ ret' = Ret("update_record", FALSE, IntegrityError, FALSE, None, <<>>)
           /\ UNCHANGED <<disk, db_path, conn, view, assigned>>
       ELSE
           LET t == [view EXCEPT !.rows =
                       {IF r.id = record_id
                        THEN row_values(r.id, name, add_date, remark)
                        ELSE r : r \in @}]
           IN  /\ view' = t
               /\ disk' = commit(disk, conn.path, t)
               /\ ret' = Ret("update_record", TRUE, "", FALSE, None, <<>>)
               /\ UNCHANGED <<db_path, conn, assigned>>

\* delete_records without the `if not record_ids` check: an empty list runs
\* DELETE ... WHERE id IN (), which removes nothing, and returns True.
\* delete_records whose statement has no WHERE clause.
delete_records_all(record_ids, fault) ==
    /\ shown
    /\ UNCHANGED shown
    /\ IF record_ids = {} THEN
           /\ ret' = Ret("delete_records", FALSE, "", FALSE, None, <<>>)
           /\ UNCHANGED <<disk, db_path, conn, view, assigned>>
       ELSE IF ~Usable \/ fault THEN
           /\ ret' = Ret("delete_records", FALSE, Error, FALSE, None, <<>>)
           /\ UNCHANGED <<disk, db_path, conn, view, assigned>>
       ELSE
           LET t == [view EXCEPT !.rows = {}]
           IN  /\ view' = t
               /\ disk' = commit(disk, conn.path, t)
               /\ ret' = Ret("delete_records", TRUE, "", FALSE, None, <<>>)
               /\ UNCHANGED <<db_path, conn, assigned>>

delete_records_unchecked(record_ids, fault) ==
    /\ shown
    /\ UNCHANGED shown
    /\ IF ~Usable \/ fault THEN
           /\ ret' = Ret("delete_records", FALSE, Error, FALSE, None, <<>>)
           /\ UNCHANGED <<disk, db_path, conn, view, assigned>>
       ELSE
           LET t == [view EXCEPT !.rows = {r \in @ : r.id \notin record_ids}]
           IN  /\ view' = t
               /\ disk' = commit(disk, conn.path, t)
               /\ ret' = Ret("delete_records", TRUE, "", FALSE, None, <<>>)
               /\ UNCHANGED <<db_path, conn, assigned>>

\* DatabaseManager.delete_records: DELETE FROM records WHERE id IN (...)
delete_records(record_ids, fault) ==
    /\ shown
    /\ UNCHANGED shown
    /\ IF record_ids = {} THEN
           \* `if not record_ids: return False`, before any statement
           /\ ret' = Ret("delete_records", FALSE, "", FALSE, None, <<>>)
           /\ UNCHANGED <<disk, db_path, conn, view, assigned>>
       ELSE IF ~Usable \/ fault THEN
           \* except Exception: return False
           /\ ret' = Ret("delete_records", FALSE, Error, FALSE, None, <<>>)
           /\ UNCHANGED <<disk, db_path, conn, view, assigned>>
       ELSE
           LET t == [view EXCEPT !.rows = {r \in @ : r.id \notin record_ids}]
           IN  /\ view' = t
               /\ disk' = commit(disk, conn.path, t)
               /\ ret' = Ret("delete_records", TRUE, "", FALSE, None, <<>>)
               /\ UNCHANGED <<db_path, conn, assigned>>

\* DatabaseManager.switch_database (with close()).  `fault`:
\*   "connect" - sqlite3.connect raises (the path cannot be opened);
\*   "schema"  - create_table raises (locked file, not a database);
\* the method has no try block, so either error leaves it.
switch_database(new_db_path, fault) ==
    /\ shown
    /\ UNCHANGED shown
    /\ db_path' = new_db_path
    /\ UNCHANGED assigned
    /\ IF fault = "connect" THEN
           \* self.conn is still the connection close() was called on
           /\ conn' = [conn EXCEPT !.open = FALSE]
           /\ view' = NoTable
           /\ ret' = Ret("switch_database", FALSE, Error, TRUE, None, <<>>)
           /\ UNCHANGED disk
       ELSE IF fault = "schema" THEN
           /\ conn' = [open |-> TRUE, path |-> new_db_path]
           /\ view' = disk[new_db_path]
           /\ ret' = Ret("switch_database", FALSE, Error, TRUE, None, <<>>)
           /\ UNCHANGED disk
       ELSE
           /\ conn' = [open |-> TRUE, path |-> new_db_path]
           /\ view' = create_table(disk[new_db_path])
           /\ disk' = commit(disk, new_db_path, create_table(disk[new_db_path]))
           /\ ret' = Ret("switch_database", TRUE, "", FALSE, None, <<>>)

\* DatabaseManager.create_new_database (static).  `fault`:
\*   "open"   - open(db_path, 'w') raises, nothing was touched;
\*   "schema" - the file is already truncated when DatabaseManager(db_path) raises.
\* A path the manager holds open is left out: truncating a file under a live
\* connection has no defined outcome.
create_new_database(path, fault) ==
    /\ shown
    /\ UNCHANGED shown
    /\ ~(conn.open /\ conn.path = path)
    /\ UNCHANGED <<db_path, conn, view>>
    /\ IF fault = "open" THEN
           /\ ret' = Ret("create_new_database", FALSE, Error, FALSE, None, <<>>)
           /\ UNCHANGED <<disk, assigned>>
       ELSE IF fault = "schema" THEN
           /\ disk' = truncate(disk, path)
           /\ assigned' = [assigned EXCEPT ![path] = {}]
           /\ ret' = Ret("create_new_database", FALSE, Error, FALSE, None, <<>>)
       ELSE
           \* DatabaseManager(db_path) on the emptied file, then db.close()
           /\ LET d == truncate(disk, path)
              IN  disk' = commit(d, path, create_table(d[path]))
           /\ assigned' = [assigned EXCEPT ![path] = {}]
           /\ ret' = Ret("create_new_database", TRUE, "", FALSE, None, <<>>)

\* search_records: SELECT ... WHERE name LIKE '%' || name_query || '%'
\* ORDER BY add_date DESC.
search_records(name_query, fault) ==
    /\ shown
    /\ UNCHANGED shown
    /\ IF ~Usable \/ fault
       THEN ret' = Ret("search_records", FALSE, Error, TRUE, None, <<>>)
       ELSE LET hits == {r \in view.rows : like(r.name, <<"%">> \o name_query \o <<"%">>)}
            IN  \E s \in order_by_add_date_desc(hits) :
                   ret' = Ret("search_records", TRUE, "", FALSE, None, s)
    /\ UNCHANGED <<disk, db_path, conn, view, assigned>>

\* MainWindow.closeEvent: close the manager's connection, accept the event.
closeEvent ==
    /\ shown
    /\ shown' = FALSE
    /\ conn' = [conn EXCEPT !.open = FALSE]
    /\ view' = NoTable
    /\ ret' = Ret("closeEvent", TRUE, "", FALSE, None, <<>>)
    /\ UNCHANGED <<disk, db_path, assigned>>

SwitchFaults == {"none", "connect", "schema"}
CreateFaults == {"none", "open", "schema"}

Next ==
    \/ \E n \in NameInputs, d \in Details, f \in BOOLEAN : add_record(n, d[1], d[2], f)
    \/ \E n \in NameInputs : add_record(n, NoDate, Null, FALSE)
    \/ \E f \in BOOLEAN : get_all_records(f)
    \/ \E i \in Ids, f \in BOOLEAN : get_record_by_id(i, f)
    \/ \E i \in Ids, n \in NameInputs, d \in Details, f \in BOOLEAN :
          update_record(i, n, d[1], d[2], f)
    \/ \E ids \in SUBSET Ids, f \in BOOLEAN : delete_records(ids, f)
    \/ \E p \in Paths, f \in SwitchFaults : switch_database(p, f)
    \/ \E p \in Paths, f \in CreateFaults : create_new_database(p, f)
    \/ closeEvent

Spec == Init /\ [][Next]_vars

\* ---- Searching a filled table ----

\* Names the table is filled with, and the texts searched for.
SearchNames ==
    { <<"a","b","c","d","e","f">>, <<"B","_","a">>, <<"b","a">> }

SearchInputs ==
    { <<>>, <<"A","B">>, <<"b","a">>, <<"b","_","a">>, <<"_">>, <<"%">>, <<"z">> }

\* Tables add_record can have built: distinct ids, names distinct under
\* NOCASE, each row with one of the Details.
SearchTables ==
    { rows \in SUBSET { row_values(i, n, d[1], d[2]) :
                           i \in Ids, n \in SearchNames, d \in Details } :
         \A r1, r2 \in rows :
            r1 # r2 => r1.id # r2.id /\ ~NocaseEq(r1.name, r2.name) }

InitSearch ==
    /\ db_path = "A"
    /\ conn = [open |-> TRUE, path |-> "A"]
    /\ \E rows \in SearchTables :
          /\ view = [schema |-> TRUE, rows |-> rows, seq |-> MaxOf(RowIds(rows))]
          /\ disk = [p \in Paths |-> IF p = "A" THEN view ELSE NoTable]
          /\ assigned = [p \in Paths |-> IF p = "A" THEN RowIds(rows) ELSE {}]
    /\ ret = Ret("init", TRUE, "", FALSE, None, <<>>)
    /\ shown = TRUE

NextSearch ==
    \/ \E q \in SearchInputs, f \in BOOLEAN : search_records(q, f)
    \/ \E f \in BOOLEAN : get_all_records(f)

SpecSearch == InitSearch /\ [][NextSearch]_vars

\* ---- Creating a store over a file that holds records ----

\* The active store "A" is open with at most one record; the file "B" is a
\* store that was filled earlier and holds at least one record.
InitCreate ==
    /\ db_path = "A"
    /\ conn = [open |-> TRUE, path |-> "A"]
    /\ \E a \in {t \in SearchTables : Cardinality(t) <= 1},
          b \in SearchTables \ {{}} :
          /\ view = [schema |-> TRUE, rows |-> a, seq |-> MaxOf(RowIds(a))]
          /\ disk = [p \in Paths |->
                       IF p = "A" THEN view
                       ELSE [schema |-> TRUE, rows |-> b, seq |-> MaxOf(RowIds(b))]]
          /\ assigned = [p \in Paths |-> IF p = "A" THEN RowIds(a) ELSE RowIds(b)]
    /\ ret = Ret("init", TRUE, "", FALSE, None, <<>>)
    /\ shown = TRUE

\* Runs in which a file that was emptied also gets its table.
NextCreate ==
    \/ \E p \in Paths, f \in CreateFaults \ {"schema"} : create_new_database(p, f)
    \/ \E p \in Paths, f \in SwitchFaults : switch_database(p, f)
    \/ \E f \in BOOLEAN : get_all_records(f)

SpecCreate == InitCreate /\ [][NextCreate]_vars

\* ---- Presentation layer: dialogs and their handlers ----

Digits == <<"0", "1", "2", "3", "4", "5", "6", "7", "8", "9">>

DigitVal(c) == (CHOOSE v \in 1..Len(Digits) : Digits[v] = c) - 1

\* int(s) of a run of digits, str(n), and str(n).zfill(width)
RECURSIVE int(_)
int(s) ==
    IF s = <<>> THEN 0
    ELSE 10 * int(SubSeq(s, 1, Len(s) - 1)) + DigitVal(s[Len(s)])

RECURSIVE str(_)
str(n) ==
    IF n < 10 THEN <<Digits[n + 1]>>
    ELSE str(n \div 10) \o <<Digits[(n % 10) + 1]>>

RECURSIVE zfill(_, _)
zfill(s, width) == IF Len(s) >= width THEN s ELSE zfill(<<"0">> \o s, width)

is_leap(year) == year % 4 = 0 /\ (year % 100 # 0 \/ year % 400 = 0)

days_in_month(year, month) ==
    IF month = 2 THEN (IF is_leap(year) THEN 29 ELSE 28)
    ELSE IF month \in {4, 6, 9, 11} THEN 30
    ELSE 31

\* The character of text at position p ("" past its end), and the number of
\* consecutive characters from p on that are in set.
char(text, p) == IF p \in 1..Len(text) THEN text[p] ELSE ""

RECURSIVE run(_, _, _)
run(text, p, set) ==
    IF char(text, p) \notin set THEN 0 ELSE 1 + run(text, p + 1, set)

DigitSet == {Digits[v] : v \in 1..Len(Digits)}

\* datetime.strptime(text, "%Y-%m-%d %H:%M:%S"): the set holding the datetime
\* parsed, or the empty set where Python raises ValueError. %Y is four
\* digits; %m, %H, %M, %S are one or two digits; %d is one or two digits or a
\* space and a digit; the blank of the format stands for one or more
\* whitespace characters; nothing may follow the seconds.
strptime(text) ==
    LET lm == run(text, 6, DigitSet)
        pd == 7 + lm
        ld == IF char(text, pd) = " " /\ char(text, pd + 1) \in DigitSet
              THEN 2 ELSE run(text, pd, DigitSet)
        pw == pd + ld
        pH == pw + run(text, pw, Whitespace)
        lH == run(text, pH, DigitSet)
        pM == pH + lH + 1
        lM == run(text, pM, DigitSet)
        pS == pM + lM + 1
        lS == run(text, pS, DigitSet)
        year == int(SubSeq(text, 1, 4))
        month == int(SubSeq(text, 6, 5 + lm))
        day == IF char(text, pd) = " " THEN DigitVal(text[pd + 1])
               ELSE int(SubSeq(text, pd, pw - 1))
        hour == int(SubSeq(text, pH, pH + lH - 1))
        minute == int(SubSeq(text, pM, pM + lM - 1))
        second == int(SubSeq(text, pS, pS + lS - 1))
    IN  IF /\ run(text, 1, DigitSet) = 4 /\ char(text, 5) = "-"
           /\ lm \in 1..2 /\ char(text, pd - 1) = "-"
           /\ ld \in 1..2
           /\ pH > pw
           /\ lH \in 1..2 /\ char(text, pM - 1) = ":"
           /\ lM \in 1..2 /\ char(text, pS - 1) = ":"
           /\ lS \in 1..2 /\ pS + lS - 1 = Len(text)
           /\ year >= 1
           /\ month \in 1..12
           /\ day \in 1..days_in_month(year, month)
           /\ hour <= 23
           /\ minute <= 59
           /\ second <= 59
        THEN {[ year |-> year, month |-> month, day |-> day,
                hour |-> hour, minute |-> minute, second |-> second ]}
        ELSE {}

\* base_time + timedelta(seconds=n); a year past 9999 is Python's OverflowError
plus_second(t) ==
    IF t.second < 59 THEN [t EXCEPT !.second = @ + 1]
    ELSE IF t.minute < 59 THEN [t EXCEPT !.second = 0, !.minute = @ + 1]
    ELSE IF t.hour < 23 THEN [t EXCEPT !.second = 0, !.minute = 0, !.hour = @ + 1]
    ELSE IF t.day < days_in_month(t.year, t.month) THEN
        [t EXCEPT !.second = 0, !.minute = 0, !.hour = 0, !.day = @ + 1]
    ELSE IF t.month < 12 THEN
        [t EXCEPT !.second = 0, !.minute = 0, !.hour = 0, !.day = 1, !.month = @ + 1]
    ELSE
        [t EXCEPT !.second = 0, !.minute = 0, !.hour = 0, !.day = 1, !.month = 1,
                  !.year = @ + 1]

RECURSIVE plus_seconds(_, _)
plus_seconds(t, n) == IF n = 0 THEN t ELSE plus_seconds(plus_second(t), n - 1)

OverflowError(t) == t.year > 9999

\* The C library under datetime.strftime: glibc writes %Y without leading
\* zeros, others pad it to four digits.
CLibs == {"glibc", "padded"}

\* record_time.strftime("%Y-%m-%d %H:%M:%S")
strftime(t, libc) ==
    (IF libc = "glibc" THEN str(t.year) ELSE zfill(str(t.year), 4))
    \o <<"-">> \o zfill(str(t.month), 2)
    \o <<"-">> \o zfill(str(t.day), 2)
    \o <<" ">> \o zfill(str(t.hour), 2)
    \o <<":">> \o zfill(str(t.minute), 2)
    \o <<":">> \o zfill(str(t.second), 2)

\* remark text `or None`
remark_or_none(text) == IF text = "" THEN Null ELSE text

\* AddRecordDialog / EditRecordDialog validate_and_accept: the dialog is
\* accepted.
validate_and_accept(name_text, date_text) ==
    /\ strip(name_text) # <<>>
    /\ strip(date_text) # <<>>
    /\ strptime(strip(date_text)) # {}

\* text.split('\n')
RECURSIVE split(_)
split(text) ==
    IF \A k \in 1..Len(text) : text[k] # "\n" THEN <<text>>
    ELSE LET k == CHOOSE k \in 1..Len(text) :
                     text[k] = "\n" /\ \A j \in 1..(k - 1) : text[j] # "\n"
         IN  <<SubSeq(text, 1, k - 1)>> \o split(SubSeq(text, k + 1, Len(text)))

NotEmpty(line) == line # <<>>

\* BatchAddDialog.get_names_list: the stripped lines that are not empty
get_names_list(text) ==
    LET lines == split(text)
    IN  SelectSeq([k \in 1..Len(lines) |-> strip(lines[k])], NotEmpty)

\* BatchAddDialog.validate_and_accept: the dialog is accepted.
batch_validate_and_accept(text, time_custom, custom_text) ==
    /\ get_names_list(text) # <<>>
    /\ time_custom => strptime(strip(custom_text)) # {}

\* BatchAddDialog.get_data: one (name, time, remark) per name, one second
\* apart from base_time on.
get_data(names, base_time, remark, libc) ==
    [k \in 1..Len(names) |->
        <<names[k], strftime(plus_seconds(base_time, k - 1), libc), remark>>]

\* add_record raises IntegrityError on table t.
refused(t, name, add_date) ==
    add_date = NoDate \/ idx_name_unique(t.rows, strip(name), 0)

\* The loop of batch_add_records over the records, in order: the table,
\* success_count and failed_records after it.
RECURSIVE batch_loop(_, _)
batch_loop(acc, records) ==
    IF records = <<>> THEN acc
    ELSE LET r == Head(records)
         IN  batch_loop(
                 IF refused(acc.table, r[1], r[2])
                 THEN [acc EXCEPT !.failed_records = Append(@, r[1])]
                 ELSE [acc EXCEPT !.table = insert_row(@, r[1], r[2], r[3]),
                                  !.success_count = @ + 1],
                 Tail(records))

\* MainWindow.add_single_record: the dialog, then add_record with its data
\* (load_records afterwards only reads).
add_single_record(name_text, date_text, remark_text, fault) ==
    IF validate_and_accept(name_text, date_text)
    THEN add_record(strip(name_text), strip(date_text), remark_or_none(remark_text), fault)
    ELSE shown /\ UNCHANGED vars

\* MainWindow.edit_selected_record: get_record_by_id, the dialog, then
\* update_record with its data.
edit_selected_record(record_id, name_text, date_text, remark_text, fault) ==
    IF \/ ~Usable
       \/ record_id \notin RowIds(view.rows)
       \/ ~validate_and_accept(name_text, date_text)
    THEN get_record_by_id(record_id, FALSE)
    ELSE update_record(record_id, strip(name_text), strip(date_text),
                       remark_or_none(remark_text), fault)

\* MainWindow.batch_add_records: the dialog, get_data, then add_record for
\* each record in turn.
batch_add_records(text, time_current, time_custom, custom_text, now, remark_text, libc) ==
    LET names == get_names_list(text)
        custom == strptime(strip(custom_text))
    IN  IF ~batch_validate_and_accept(text, time_custom, custom_text) THEN
            shown /\ UNCHANGED vars
        ELSE IF ~time_current /\ custom = {} THEN
            \* neither box ticked: get_data parses the unchecked text
            /\ shown
            /\ ret' = Ret("get_data", FALSE, "ValueError", TRUE, None, <<>>)
            /\ UNCHANGED <<disk, db_path, conn, view, assigned, shown>>
        ELSE
            LET base_time == IF time_current THEN now ELSE CHOOSE b \in custom : TRUE
            IN  IF OverflowError(plus_seconds(base_time, Len(names) - 1)) THEN
                    /\ shown
                    /\ ret' = Ret("get_data", FALSE, "OverflowError", TRUE, None, <<>>)
                    /\ UNCHANGED <<disk, db_path, conn, view, assigned, shown>>
                ELSE IF ~Usable THEN
                    /\ shown
                    /\ ret' = Ret("add_record", FALSE, Error, TRUE, None, <<>>)
                    /\ UNCHANGED <<disk, db_path, conn, view, assigned, shown>>
                ELSE
                    LET records == get_data(names, base_time, remark_or_none(remark_text), libc)
                        done == batch_loop([table |-> view, success_count |-> 0,
                                            failed_records |-> <<>>], records)
                        t == done.table
                    IN  /\ shown
                        /\ Inserted(disk) + (t.seq - view.seq) <= MaxInserts
                        /\ view' = t
                        /\ disk' = commit(disk, conn.path, t)
                        /\ assigned' = [assigned EXCEPT ![conn.path] = @ \cup RowIds(t.rows)]
                        \* the message shown: success_count and the failed names
                        /\ ret' = Ret("batch_add_records", done.failed_records = <<>>, "",
                                      FALSE, <<done.success_count>>, done.failed_records)
                        /\ UNCHANGED <<db_path, conn, shown>>

\* What the user types into the dialogs, and the clock.
DateShort == <<"2","0","2","4","-","1","-","2"," ","3",":","4",":","5">>
DateOld == <<"0","9","9","9","-","1","2","-","3","1"," ","2","3",":","5","9",":","5","9">>
DateLast == <<"9","9","9","9","-","1","2","-","3","1"," ","2","3",":","5","9",":","5","9">>
DateOnly == <<"2","0","2","4","-","0","1","-","0","1">>

NameTexts == { <<>>, <<" ">>, <<"a">>, <<" ", "b", " ">> }
DateTexts == { <<>>, <<" ">> \o Date1, DateShort, DateOld, DateLast, DateOnly }
RemarkTexts == { "", "dup" }
BatchTexts == { <<>>, <<" ", "\n">>, <<"a", "\n", " ", "\n", " ", "b">>, <<"b", "\n", "B">> }
Clock == strptime(Date2)

NextGui ==
    \/ \E n \in NameTexts, d \in DateTexts, r \in RemarkTexts :
          add_single_record(n, d, r, FALSE)
    \/ \E i \in Ids, n \in NameTexts, d \in DateTexts :
          edit_selected_record(i, n, d, "", FALSE)
    \/ \E text \in BatchTexts, time_current, time_custom \in BOOLEAN,
          custom_text \in DateTexts, now \in Clock, libc \in CLibs :
          /\ ~(time_current /\ time_custom)
          \* the custom time is only read when "current time" is not ticked
          /\ time_current => custom_text = <<>>
          /\ batch_add_records(text, time_current, time_custom, custom_text, now, "", libc)

SpecGui == Init /\ [][NextGui]_vars

\* ----------------------------------------------------------------- claims
\* Two names are equal under case-insensitive comparison.
SameNameIgnoringCase(a, b) == NoCase(a) = NoCase(b)

NamesDistinct(rows) ==
    \A r1, r2 \in rows : r1 # r2 => ~SameNameIgnoringCase(r1.name, r2.name)

\* C1: in every reachable state no two records of the active store (nor of
\* any store file) have names that are equal under case-insensitive
\* comparison.
C1_UniqueNames ==
    /\ NamesDistinct(view.rows)
    /\ \A p \in Paths : NamesDistinct(disk[p].rows)

\* A create of a case variant was just refused by a store holding two records.
C1_Witness ==
    /\ Usable
    /\ Cardinality(view.rows) = 2
    /\ ret.op = "add_record" /\ ret.exc = IntegrityError

\* C2: a create whose trimmed name equals an existing record's name,
\* ignoring case, returns failure with that record's (add_date, remark) and
\* changes neither the records nor the files.
C2_DuplicateCreate ==
    [][ret'.op = "add_record" =>
       (\A n \in NameInputs, d \in Details :
             ( /\ Usable
               /\ \E e \in view.rows : SameNameIgnoringCase(e.name, strip(n))
               /\ add_record(n, d[1], d[2], FALSE) )
             => /\ ~ret'.ok /\ ~ret'.raised
                /\ \E e \in view.rows :
                      /\ SameNameIgnoringCase(e.name, strip(n))
                      /\ ret'.detail = <<e.add_date, e.remark>>
                /\ view' = view
                /\ disk' = disk)]_vars

\* create("A", 1, Null) succeeded, then a create of a colliding name failed
\* returning (1, Null); the store holds the first record only.
C2_Witness ==
    /\ ret.op = "add_record" /\ ~ret.ok /\ ~ret.raised
    /\ ret.detail = <<Date1, Null>>
    /\ view.rows = {[id |-> 1, name |-> <<"A">>, add_date |-> Date1, remark |-> Null]}
    /\ disk[db_path].rows = view.rows

\* C3: a create whose trimmed name collides with no record returns success
\* and persists exactly one new record with a fresh id; reading that id
\* back gives the trimmed name and the submitted add_date and remark.
C3_CreateThenRead ==
    [][ret'.op = "add_record" =>
       (\A n \in NameInputs, d \in Details :
             ( /\ Usable
               /\ ~\E e \in view.rows : SameNameIgnoringCase(e.name, strip(n))
               /\ add_record(n, d[1], d[2], FALSE) )
             => /\ ret'.ok /\ ~ret'.raised
                /\ \E new \in view'.rows :
                      /\ new.id \notin RowIds(view.rows)
                      /\ new.id \notin assigned[db_path]
                      /\ view'.rows = view.rows \cup {new}
                      /\ disk'[db_path].rows = view'.rows
                      /\ select_by_id(view'.rows, new.id) =
                            {[id |-> new.id, name |-> strip(n),
                              add_date |-> d[1], remark |-> d[2]]})]_vars

\* A second record was just created and is on file.
C3_Witness ==
    /\ ret.op = "add_record" /\ ret.ok
    /\ Cardinality(view.rows) = 2
    /\ disk[db_path].rows = view.rows
    /\ \E r \in view.rows : r.id = 2 /\ r.name = <<"a">>

\* C4: an update whose trimmed new name equals, ignoring case, the name of
\* a different record returns failure and leaves every record (the target
\* and the colliding one included) exactly as it was.
C4_UpdateCollision ==
    [][ret'.op = "update_record" =>
       (\A i \in Ids, n \in NameInputs, d \in Details :
             ( /\ Usable
               /\ i \in RowIds(view.rows)
               /\ \E e \in view.rows : e.id # i /\ SameNameIgnoringCase(e.name, strip(n))
               /\ update_record(i, n, d[1], d[2], FALSE) )
             => /\ ~ret'.ok /\ ~ret'.raised
                /\ view'.rows = view.rows
                /\ disk' = disk)]_vars

\* An update was just refused for a name collision between two records.
C4_Witness ==
    /\ ret.op = "update_record" /\ ~ret.ok /\ ret.exc = IntegrityError
    /\ Cardinality(view.rows) = 2

\* C5: an update of an existing record that submits the record's own
\* current name returns success and stores the submitted add_date and
\* remark.
C5_UpdateOwnName ==
    [][ret'.op = "update_record" =>
       (\A i \in Ids, n \in NameInputs, d \in Details :
             ( /\ Usable
               /\ \E e \in view.rows : e.id = i /\ e.name = n
               /\ update_record(i, n, d[1], d[2], FALSE) )
             => /\ ret'.ok
                /\ [id |-> i, name |-> n, add_date |-> d[1], remark |-> d[2]] \in view'.rows
                /\ disk'[db_path].rows = view'.rows)]_vars

\* Record 1 kept its name "A" through a successful update next to a
\* record named "b".
C5_Witness ==
    /\ ret.op = "update_record" /\ ret.ok
    /\ [id |-> 1, name |-> <<"A">>, add_date |-> Date2, remark |-> "dup"] \in view.rows
    /\ \E r \in view.rows : r.id = 2 /\ r.name = <<"b">>

\* C6: a delete that names an id which is not a record removes no record
\* at all (it never removes the existing ids alone).
C6_DeleteAllOrNothing ==
    [][ret'.op = "delete_records" =>
       (\A ids \in SUBSET Ids :
             ( /\ Usable
               /\ \E i \in ids : i \notin RowIds(view.rows)
               /\ delete_records(ids, FALSE) )
             => view'.rows = view.rows)]_vars

\* C7: ids are never reused or renumbered.  In every step and for every
\* store file, an id that appears is greater than every id the file has
\* assigned so far (ids of deleted records included); a create keeps every
\* existing record, a delete only drops records, an update keeps the set
\* of ids.
C7_IdsNeverReused ==
    [][\A p \in Paths :
          /\ \A i \in RowIds(disk'[p].rows) \ RowIds(disk[p].rows) :
                \A j \in assigned[p] : i > j
          /\ ret'.op = "add_record" => disk[p].rows \subseteq disk'[p].rows
          /\ ret'.op = "delete_records" => disk'[p].rows \subseteq disk[p].rows
          /\ ret'.op = "update_record" =>
                RowIds(disk'[p].rows) = RowIds(disk[p].rows)]_vars

\* The only record, created last, has id 2: record 1 held the largest id
\* when it was deleted.
C7_Witness ==
    /\ ret.op = "add_record" /\ ret.ok
    /\ RowIds(view.rows) = {2}
    /\ assigned[db_path] = {1, 2}
    /\ disk[db_path].rows = view.rows

\* C8: the store is always open on its recorded path with a usable handle,
\* also after a switch_database that failed.
C8_AlwaysOpen ==
    /\ conn.open
    /\ conn.path = db_path
    /\ view.schema

\* C9: switch round trip.  Every mutation is on file when the call returns;
\* a store file that is not the active one keeps its content whatever is
\* done to the active one; a switch changes the records of no file and
\* shows the records the file holds.  So leaving a store and coming back
\* finds the records that were there on leaving.
C9_SwitchRoundTrip ==
    [][/\ Usable => view = disk[db_path]
       /\ \A p \in Paths :
             /\ ( /\ ~(conn.open /\ conn.path = p)
                  /\ ret'.op # "switch_database"
                  /\ ~\E f \in CreateFaults : create_new_database(p, f) )
                => disk'[p] = disk[p]
             /\ ret'.op = "switch_database" => disk'[p].rows = disk[p].rows
             /\ (ret'.op = "switch_database" /\ ret'.ok /\ db_path' = p)
                => view'.rows = disk[p].rows]_vars

\* Back on store A, which shows its record, after a record was created in
\* store B.
C9_Witness ==
    /\ ret.op = "switch_database" /\ ret.ok
    /\ db_path = "A"
    /\ Cardinality(view.rows) = 1
    /\ Cardinality(disk["B"].rows) = 1

\* C10: no store call lets an exception reach its caller; every failure is
\* a returned value.
C10_NoUncaughtError == ~ret.raised

\* C11: whenever create returns failure, the detail it returns is present
\* and is the (add_date, remark) of an existing record whose name equals
\* the trimmed submitted name ignoring case.
C11_FailureHasDetail ==
    [][ret'.op = "add_record" =>
       (\A n \in NameInputs, d \in Details \cup {<<NoDate, Null>>} :
             ( /\ Usable
               /\ add_record(n, d[1], d[2], FALSE)
               /\ ~ret'.ok /\ ~ret'.raised )
             => /\ ret'.detail # None
                /\ \E e \in view.rows :
                      /\ SameNameIgnoringCase(e.name, strip(n))
                      /\ ret'.detail = <<e.add_date, e.remark>>)]_vars

\* C12: a delete with an empty id set returns failure and leaves the
\* records and the files unchanged.
C12_EmptyDelete ==
    [][ret'.op = "delete_records" =>
       (\A f \in BOOLEAN :
             delete_records({}, f)
             => /\ ~ret'.ok /\ ~ret'.raised
                /\ view' = view
                /\ disk' = disk)]_vars

\* A delete of nothing was just refused on a store that holds a record.
C12_Witness ==
    /\ ret.op = "delete_records" /\ ~ret.ok /\ ret.exc = ""
    /\ Usable
    /\ view.rows # {}

\* Timestamp text a sorts before timestamp text b.
Earlier(a, b) ==
    \E k \in 1..Len(b) :
       /\ \A m \in 1..(k - 1) : m <= Len(a) /\ a[m] = b[m]
       /\ k > Len(a) \/ (a[k] # b[k] /\ Rank(a[k]) < Rank(b[k]))

\* C14: read_all returns every record of the active store exactly once,
\* most recent first: for r1 before r2 in the result, r1.add_date is not
\* earlier than r2.add_date.
C14_ReadAllOrdered ==
    (ret.op = "get_all_records" /\ ret.ok)
    => /\ Len(ret.rows) = Cardinality(view.rows)
       /\ {ret.rows[i] : i \in 1..Len(ret.rows)} = view.rows
       /\ \A i, j \in 1..Len(ret.rows) :
             i < j => ~Earlier(ret.rows[i].add_date, ret.rows[j].add_date)

\* read_all just returned two records, the later one first.
C14_Witness ==
    /\ ret.op = "get_all_records" /\ ret.ok
    /\ Len(ret.rows) = 2
    /\ Earlier(ret.rows[2].add_date, ret.rows[1].add_date)
    /\ ret.rows[1].id < ret.rows[2].id

\* C15: read_by_id returns an absent result, not an error, when no record
\* has the id (ids of deleted records included), returns the record when
\* there is one, and never changes the store.
C15_ReadByIdAbsent ==
    [][ret'.op = "get_record_by_id" =>
       (\A i \in Ids :
             ( /\ Usable
               /\ get_record_by_id(i, FALSE) )
             => /\ ret'.ok /\ ~ret'.raised
                /\ i \notin RowIds(view.rows) => ret'.rows = <<>>
                /\ \A r \in view.rows : r.id = i => ret'.rows = <<r>>
                /\ view' = view
                /\ disk' = disk)]_vars

\* Every id a caller can name was assigned and deleted; the lookup just
\* returned absent.
C15_Witness ==
    /\ ret.op = "get_record_by_id" /\ ret.ok /\ ret.rows = <<>>
    /\ Usable
    /\ view.rows = {}
    /\ assigned[db_path] = Ids

\* C16: while the window is open exactly one storage handle is open, the
\* one on the current path, whatever switch_database calls were made; after
\* closeEvent no handle is open.
C16_OneOpenHandle ==
    IF shown THEN OpenHandles = {db_path} ELSE OpenHandles = {}

\* C17: create_new_database on a path other than the active one, when the
\* file can be written, returns True and leaves at that path a store with
\* the table and no records; the active path, the open connection and its
\* records, and every other file are as before, and no further handle is open.
C17_CreateNewStore ==
    [][ret'.op = "create_new_database" =>
       (\A p \in Paths :
             ( /\ p # db_path
               /\ create_new_database(p, "none") )
             => /\ ret'.ok /\ ~ret'.raised
                /\ disk'[p] = create_table(NoTable)
                /\ db_path' = db_path
                /\ conn' = conn
                /\ view' = view
                /\ OpenHandles' = OpenHandles
                /\ \A q \in Paths \ {p} : disk'[q] = disk[q])]_vars

\* C17 witness: a store was created beside an active store that has records.
C17_Witness ==
    /\ ret.op = "create_new_database" /\ ret.ok
    /\ Usable
    /\ view.rows # {}
    /\ \E p \in Paths \ {db_path} : disk[p] = create_table(NoTable)

\* C18: an update_record that returns True for the id of an existing record
\* leaves that record with the same id, the stripped name, the given
\* add_date and the given remark (a null remark replaces the old one), and
\* every other record as it was.
C18_UpdateReplaces ==
    [][ret'.op = "update_record" =>
       (\A i \in Ids, n \in NameInputs, d \in Details :
             ( /\ Usable
               /\ i \in RowIds(view.rows)
               /\ update_record(i, n, d[1], d[2], FALSE)
               /\ ret'.ok )
             => /\ \A r \in view'.rows :
                      r.id = i => /\ r.name = strip(n)
                                  /\ r.add_date = d[1]
                                  /\ r.remark = d[2]
                /\ RowIds(view'.rows) = RowIds(view.rows)
                /\ Cardinality(view'.rows) = Cardinality(view.rows)
                /\ \A r \in view.rows : r.id # i => r \in view'.rows
                /\ disk'[conn.path] = view')]_vars

\* C18 witness: an update succeeded while both records exist, one now with
\* a null remark and the other with a remark.
C18_Witness ==
    /\ ret.op = "update_record" /\ ret.ok
    /\ Usable
    /\ RowIds(view.rows) = Ids
    /\ \E r \in view.rows : r.remark = Null
    /\ \E r \in view.rows : r.remark = "dup"

\* A name without whitespace at either end.
NoOuterSpace(s) ==
    s = <<>> \/ (s[1] \notin Whitespace /\ s[Len(s)] \notin Whitespace)

\* n is stored name e with whitespace around it, up to letter case.
SameNameIgnoringSpaceAndCase(n, e) ==
    \E i, j \in 0..Len(n) :
       /\ i + j <= Len(n)
       /\ \A k \in 1..i : n[k] \in Whitespace
       /\ \A k \in (Len(n) - j + 1)..Len(n) : n[k] \in Whitespace
       /\ SameNameIgnoringCase(SubSeq(n, i + 1, Len(n) - j), e)

\* C19: no stored name, in the open connection or in any file, begins or
\* ends with whitespace; and an add_record whose name is an existing name
\* with whitespace around it, up to case, is refused and stores nothing.
C19_StrippedNames ==
    /\ [](\A p \in Paths : \A r \in disk[p].rows \cup view.rows :
             NoOuterSpace(r.name))
    /\ [][ret'.op = "add_record" =>
          (\A n \in NameInputs, d \in Details :
                ( /\ Usable
                  /\ \E e \in view.rows : SameNameIgnoringSpaceAndCase(n, e.name)
                  /\ add_record(n, d[1], d[2], FALSE) )
                => /\ ~ret'.ok
                   /\ view' = view
                   /\ disk' = disk)]_vars

\* C19 witness: stored names "a" (submitted as " a ") and "b"; the last add
\* was refused.
C19_Witness ==
    /\ ret.op = "add_record" /\ ~ret.ok /\ ret.exc = IntegrityError
    /\ Usable
    /\ {r.name : r \in view.rows} = {<<"a">>, <<"b">>}

\* q occurs in s as a run of consecutive characters, up to letter case.
ContainsIgnoringCase(s, q) ==
    \E i \in 0..(Len(s) - Len(q)) :
       SameNameIgnoringCase(SubSeq(s, i + 1, i + Len(q)), q)

\* C13: search_records(q) returns exactly the records whose name contains q
\* as a run of consecutive characters up to letter case, each once, latest
\* add_date first, for every q including "%" and "_"; for the empty q the
\* result is a result get_all_records can give.
C13_SearchSubstring ==
    [][ret'.op = "search_records" =>
       (\A q \in SearchInputs :
             ( /\ Usable
               /\ search_records(q, FALSE) )
             => /\ {ret'.rows[i] : i \in 1..Len(ret'.rows)}
                      = {r \in view.rows : ContainsIgnoringCase(r.name, q)}
                /\ \A i, j \in 1..Len(ret'.rows) :
                      i < j => /\ ret'.rows[i] # ret'.rows[j]
                               /\ ~Earlier(ret'.rows[i].add_date, ret'.rows[j].add_date)
                /\ q = <<>> => ret'.rows \in order_by_add_date_desc(view.rows))]_vars

\* C20: through add_single_record, batch_add_records and
\* edit_selected_record every record the store holds has a name that is not
\* empty and an add_date that parses as %Y-%m-%d %H:%M:%S, and a dialog that
\* is not accepted changes nothing.
C20_ValidatedInput ==
    /\ [](\A r \in view.rows : r.name # <<>> /\ strptime(r.add_date) # {})
    /\ [][\A n \in NameTexts, d \in DateTexts, r \in RemarkTexts :
             ( /\ ~validate_and_accept(n, d)
               /\ add_single_record(n, d, r, FALSE) )
             => UNCHANGED vars]_vars

\* C21: delete_records with a non-empty id list, on a connection that can
\* run the statement, returns True and removes exactly the records whose id
\* is in the list: every other record stays as it was, and listed ids that
\* match no record change nothing.
C21_DeleteExactly ==
    [][ret'.op = "delete_records" =>
       (\A ids \in (SUBSET Ids) \ {{}} :
             ( /\ Usable
               /\ delete_records(ids, FALSE) )
             => /\ ret'.ok /\ ~ret'.raised
                /\ \A r \in view.rows : r.id \notin ids => r \in view'.rows
                /\ \A r \in view'.rows : r \in view.rows /\ r.id \notin ids
                /\ disk'[conn.path] = view')]_vars

\* C21 witness: of the two records ever added one was deleted, the other
\* is still there.
C21_Witness ==
    /\ ret.op = "delete_records" /\ ret.ok
    /\ Usable
    /\ assigned[db_path] = Ids
    /\ Cardinality(view.rows) = 1

\* C22: update_record with an id that no record has, on a connection that
\* can run the statement, returns True and leaves the records as they were,
\* even when the name given is the name of an existing record.
C22_UpdateMissingId ==
    [][ret'.op = "update_record" =>
       (\A i \in Ids, n \in NameInputs, d \in Details :
             ( /\ Usable
               /\ i \notin RowIds(view.rows)
               /\ update_record(i, n, d[1], d[2], FALSE) )
             => /\ ret'.ok /\ ~ret'.raised
                /\ view'.rows = view.rows
                /\ disk' = disk)]_vars

\* C22 witness: an update returned True although the only record there was
\* had been deleted before.
C22_Witness ==
    /\ ret.op = "update_record" /\ ret.ok
    /\ Usable
    /\ view.rows = {}
    /\ assigned[db_path] # {}

\* C24: create_new_database on a path other than the active one whose file
\* is a store holding records returns True and leaves that file a store
\* with no records; a switch_database to that path right afterwards opens
\* a store without records, and get_all_records on it returns nothing.
C24_CreateOverExisting ==
    /\ [][ret'.op = "create_new_database" =>
          (\A p \in Paths :
                ( /\ p # db_path
                  /\ disk[p].rows # {}
                  /\ create_new_database(p, "none") )
                => /\ ret'.ok /\ ~ret'.raised
                   /\ disk'[p].schema
                   /\ disk'[p].rows = {})]_vars
    /\ [][(ret.op = "create_new_database" /\ ret.ok /\ ret'.op = "switch_database") =>
          (\A p \in Paths :
                ( /\ conn.open /\ conn.path = db_path
                  /\ p # db_path
                  /\ switch_database(p, "none") )
                => /\ view'.schema
                   /\ view'.rows = {})]_vars
    /\ [](( /\ ret.op = "get_all_records" /\ ret.ok
            /\ view.rows = {} ) => ret.rows = <<>>)

\* C24 witness: "B", which held records, was created anew while "A" was
\* active, then opened and read: nothing came back.
C24_Witness ==
    /\ ret.op = "get_all_records" /\ ret.ok /\ ret.rows = <<>>
    /\ Usable
    /\ db_path = "B"
    /\ disk["B"].rows = {}

\* Name k of the batch is the name of a record already stored, or of an
\* earlier name of the batch, up to letter case.
Collides(names, k) ==
    \/ \E r \in view.rows : SameNameIgnoringCase(r.name, names[k])
    \/ \E j \in 1..(k - 1) : SameNameIgnoringCase(names[j], names[k])

\* C23: an accepted batch add on a usable store makes one add_record per
\* name, in order, name k (from 0) with the time base + k seconds in the
\* format YYYY-MM-DD HH:MM:SS: the names that collide with a stored record
\* or an earlier name of the batch are the failed ones, successes plus
\* failures is the number of names, and afterwards the store holds the
\* prior records and exactly one record for each name that did not collide.
C23_BatchAdd ==
    [][ret'.op \in {"batch_add_records", "get_data"} =>
       (\A text \in BatchTexts, time_current, time_custom \in BOOLEAN,
           custom_text \in DateTexts, now \in Clock, libc \in CLibs :
             LET names == get_names_list(text)
                 bases == IF time_current THEN {now} ELSE strptime(strip(custom_text))
                 kept == {k \in 1..Len(names) : ~Collides(names, k)}
             IN  ( /\ Usable
                   /\ ~(time_current /\ time_custom)
                   /\ batch_validate_and_accept(text, time_custom, custom_text)
                   /\ batch_add_records(text, time_current, time_custom, custom_text,
                                        now, "", libc) )
                 => /\ ret'.op = "batch_add_records"
                    /\ ret'.detail = <<Cardinality(kept)>>
                    /\ Cardinality(kept) + Len(ret'.rows) = Len(names)
                    /\ \A k \in 1..Len(names) :
                          Collides(names, k) <=> \E f \in 1..Len(ret'.rows) : ret'.rows[f] = names[k]
                    /\ view.rows \subseteq view'.rows
                    /\ Cardinality(view'.rows \ view.rows) = Cardinality(kept)
                    /\ \E base \in bases :
                          \A k \in kept :
                             \E r \in view'.rows \ view.rows :
                                /\ r.name = names[k]
                                /\ r.add_date = strftime(plus_seconds(base, k - 1), "padded")
                                /\ r.remark = Null)]_vars

====
